---------------------------- MODULE Spec2Model ----------------------------
(***************************************************************************)
(* Model of apps/web/utils/gmail/message.ts: the batched fetch with        *)
(* per-item retry (getMessagesBatch), the paginated query                  *)
(* (queryBatchMessages, queryBatchMessagesPages) and their remote          *)
(* collaborators (batchGet, list).                                         *)
(*                                                                         *)
(* The functions are async.  A state of the model is the program between   *)
(* two awaits: `stack` holds the suspended invocations (innermost last),   *)
(* `settled` the promise that has just settled and whose awaiter has not   *)
(* resumed yet, `trace` every externally visible event so far (remote      *)
(* calls and their answers, suspensions, log entries), `mailbox` the       *)
(* messages the remote holds that match the searches of the sender         *)
(* history.  One action is the code that runs between one resumption and   *)
(* the next await.                                                         *)
(*                                                                         *)
(* Message ids are distinct opaque strings; an id list names each message  *)
(* once (the lists come from the list primitive, which returns a message   *)
(* once).                                                                  *)
(***************************************************************************)
EXTENDS Integers, Sequences, FiniteSets, TLC

VARIABLES call, stack, settled, trace, mailbox

vars == <<call, stack, settled, trace, mailbox>>

---------------------------------------------------------------------------
(* Bounds of the model. *)

\* Number of distinct message ids a getMessagesBatch request is drawn from,
\* and the number of leading positions of a batch the remote may fail.
MaxIds == 3

\* Largest retryCount argument a caller passes to getMessagesBatch.
MaxRetryArg == 5

\* Number of pages the remote holds for a query at most.
MaxPages == 3

\* The remote answers a list call with no item, with MaxSmallPage items or
\* with as many as the call asked for.
MaxSmallPage == 3

\* Item errors the remote answers with during one paginated query at most.
MaxPagedFailures == 4

---------------------------------------------------------------------------
(* Constants of the program. *)

MaxRetryCount == 3
MaxBatchSize == 100
BackoffStepMs == 1000
MaxPageSize == 20
DefaultMaxResults == 20

---------------------------------------------------------------------------
(* Values. *)

Undefined == "undefined"
Null == "null"

Range(s) == {s[i] : i \in 1..Len(s)}

Min(a, b) == IF a < b THEN a ELSE b

MessageId(n) == "m" \o ToString(n)

\* The id lists handed to getMessagesBatch: every list of distinct ids over a
\* pool of MaxIds, and two long lists around the batch cap.
ShortIdLists ==
    UNION {{s \in [1..n -> {MessageId(i) : i \in 1..MaxIds}] :
                \A i, j \in 1..n : i # j => s[i] # s[j]} : n \in 0..MaxIds}

\* The maxResults a caller asks queryBatchMessagesPages for.
MaxResultsArgs == {0, 1, MaxPageSize, 2 * MaxPageSize + 5}

LongIdLists == {[i \in 1..n |-> MessageId(i)] : n \in {MaxBatchSize, MaxBatchSize + 1}}

IdLists == ShortIdLists \cup LongIdLists

\* What batchGet holds for an id that it could fetch.
RawMessage(id) == [id |-> id, payload |-> "raw"]

BatchError == [error |-> [code |-> 429, message |-> "rate limited"]]

isBatchError(message) == "error" \in DOMAIN message

parseMessage(message) == [id |-> message.id, parsed |-> "yes"]

\* An optional number or list: absent, or present with a value.
None == <<>>
Some(x) == <<x>>

\* JavaScript truthiness of a string | null | undefined.
Truthy(x) == x \notin {Undefined, Null, ""}

\* A promise: pending, or settled with a value or an error.
Pending == [kind |-> "pending"]
Return(v) == [kind |-> "return", value |-> v]
Throw(e) == [kind |-> "throw", value |-> e]

Event(ev, arg) == [ev |-> ev, arg |-> arg]

Push(stk, frame) == Append(stk, frame)
Top(stk) == stk[Len(stk)]
Pop(stk) == SubSeq(stk, 1, Len(stk) - 1)

---------------------------------------------------------------------------
(* getMessagesBatch *)

\* The messages of the two errors thrown (lines 65 and 225-227).
BatchSizeError == "Too many messages. Max 1000"

PageSizeError == "Max results must be 20 or Google will rate limit us and return 429 errors."

\* Variant: the retry bound tested one attempt late.
TooManyRetriesLate(retryCount) == retryCount > MaxRetryCount + 1

\* Variant: the retry bound tested with >=.
TooManyRetriesInclusive(retryCount) == retryCount >= MaxRetryCount

\* retryCount > 3 (line 61).
TooManyRetries(retryCount) == retryCount > MaxRetryCount

\* Variants: the cap tested with >=, and one id late.
TooManyMessagesInclusive(messageIds) == Len(messageIds) >= MaxBatchSize

TooManyMessagesLate(messageIds) == Len(messageIds) > MaxBatchSize + 1

\* messageIds.length > 100 (line 65).
TooManyMessages(messageIds) == Len(messageIds) > MaxBatchSize

\* Variant: the retry keeps the retryCount of its caller.
NextRetryCountSame(retryCount) == retryCount

\* const nextRetryCount = retryCount + 1 (line 95).
NextRetryCount(retryCount) == retryCount + 1

\* Variant: the same delay before every retry.
BackoffConstant(nextRetryCount) == BackoffStepMs

\* Variant: the delay computed from retryCount, not from nextRetryCount.
BackoffFromRetryCount(nextRetryCount) == BackoffStepMs * (nextRetryCount - 1)

\* 1_000 * nextRetryCount (line 96).
Backoff(nextRetryCount) == BackoffStepMs * nextRetryCount

\* The positions of `batch` that hold an error, in batch order.
ErrorPositions(batch) ==
    SelectSeq([i \in 1..Len(batch) |-> i], LAMBDA i : isBatchError(batch[i]))

\* A variant that asks again for every id of the batch once one has failed.
MissingIdsWholeBatch(batch, messageIds) ==
    IF Len(ErrorPositions(batch)) > 0 THEN messageIds ELSE <<>>

\* Array.from(missingMessageIds): the ids at the failed positions, each once,
\* in order of first insertion (a Set keeps the first add of a value).
MissingIds(batch, messageIds) ==
    LET pos == ErrorPositions(batch)
        first == SelectSeq([k \in 1..Len(pos) |-> k],
                           LAMBDA k : \A j \in 1..(k - 1) :
                                         messageIds[pos[j]] # messageIds[pos[k]])
    IN  [k \in 1..Len(first) |-> messageIds[pos[first[k]]]]

\* batch.map(...).filter(isDefined): the parsed successes, in batch order.
ParsedMessages(batch) ==
    LET ok == SelectSeq(batch, LAMBDA message : ~isBatchError(message))
    IN  [k \in 1..Len(ok) |-> parseMessage(ok[k])]

\* One "Error fetching message" entry per failed item, in batch order.
ItemErrorLogs(batch) ==
    LET pos == ErrorPositions(batch)
    IN  [k \in 1..Len(pos) |->
            Event("log.error", [msg |-> "Error fetching message",
                                code |-> batch[pos[k]].error.code,
                                error |-> batch[pos[k]].error.message])]

\* Variant: exhaustion rejects the call.
GiveUpThrowing(messageIds, retryCount) == Throw("Too many retries")

\* return [] of line 63.
GiveUp(messageIds, retryCount) == Return(<<>>)

\* Variant: only the retried messages are returned.
ConcatDropFirst(messages, missingMessages) == missingMessages

\* Variant: the retried messages put first.
ConcatRetriedFirst(messages, missingMessages) == missingMessages \o messages

\* [...messages, ...missingMessages]
Concat(messages, missingMessages) == messages \o missingMessages

\* Variant: the size cap tested before the retry bound.
EnterGetMessagesBatchSizeFirst(stk, tr, messageIds, retryCount) ==
    IF TooManyMessages(messageIds)
    THEN [stack |-> stk, settled |-> Throw(BatchSizeError), trace |-> tr]
    ELSE IF TooManyRetries(retryCount)
    THEN [stack |-> stk,
          settled |-> GiveUp(messageIds, retryCount),
          trace |-> Append(tr, Event("log.error",
                                     [msg |-> "Too many retries",
                                      messageIds |-> messageIds,
                                      retryCount |-> retryCount]))]
    ELSE [stack |-> Push(stk, [fn |-> "getMessagesBatch",
                               pc |-> "awaitBatch",
                               messageIds |-> messageIds,
                               retryCount |-> retryCount,
                               messages |-> <<>>,
                               missingMessageIds |-> <<>>]),
          settled |-> Pending,
          trace |-> Append(tr, Event("batchGet", messageIds))]

\* The code of getMessagesBatch from its invocation to its first await (or to
\* its return or throw), run on the caller's stack `stk` and trace `tr`.
EnterGetMessagesBatch(stk, tr, messageIds, retryCount) ==
    IF TooManyRetries(retryCount)
    THEN [stack |-> stk,
          settled |-> GiveUp(messageIds, retryCount),
          trace |-> Append(tr, Event("log.error",
                                     [msg |-> "Too many retries",
                                      messageIds |-> messageIds,
                                      retryCount |-> retryCount]))]
    ELSE IF TooManyMessages(messageIds)
    THEN [stack |-> stk,
          settled |-> Throw(BatchSizeError),
          trace |-> tr]
    ELSE [stack |-> Push(stk, [fn |-> "getMessagesBatch",
                               pc |-> "awaitBatch",
                               messageIds |-> messageIds,
                               retryCount |-> retryCount,
                               messages |-> <<>>,
                               missingMessageIds |-> <<>>]),
          settled |-> Pending,
          trace |-> Append(tr, Event("batchGet", messageIds))]

Idle == call.fn = "none"

\* The mailbox of a run that makes no search of the sender history.
NoMailbox == [incoming |-> {}, outgoing |-> {}]

Awaiting(fn, pc) ==
    /\ Len(stack) > 0
    /\ Top(stack).fn = fn
    /\ Top(stack).pc = pc

\* A caller invokes getMessagesBatch(messageIds, accessToken, retryCount).
GetMessagesBatchCall ==
    /\ Idle
    /\ \E messageIds \in IdLists, retryCount \in 0..MaxRetryArg :
          LET r == EnterGetMessagesBatch(stack, trace, messageIds, retryCount) IN
          /\ call' = [fn |-> "getMessagesBatch",
                      messageIds |-> messageIds,
                      retryCount |-> retryCount]
          /\ stack' = r.stack
          /\ settled' = r.settled
          /\ trace' = r.trace
    /\ UNCHANGED mailbox

ItemErrors(tr) ==
    Len(SelectSeq(tr, LAMBDA e : e.ev = "log.error" /\ e.arg.msg = "Error fetching message"))

\* The sets of positions the remote may answer with an error.  A direct call
\* of getMessagesBatch: any of the first MaxIds positions.  During a query:
\* the first position, MaxPagedFailures times over the whole query.
FailureChoices(messageIds) ==
    IF call.fn = "getMessagesBatch"
    THEN SUBSET (1..Min(Len(messageIds), MaxIds))
    ELSE IF Len(messageIds) > 0 /\ ItemErrors(trace) < MaxPagedFailures
         THEN {{}, {1}}
         ELSE {{}}

\* getBatch resolves: the remote answers each position with the raw message
\* or with an error.  Lines 73-105 up to the sleep or the return.
GetMessagesBatchBatchResolved ==
    /\ Awaiting("getMessagesBatch", "awaitBatch")
    /\ settled.kind = "pending"
    /\ \E failed \in FailureChoices(Top(stack).messageIds) :
          LET f == Top(stack)
              n == Len(f.messageIds)
              batch == [i \in 1..n |-> IF i \in failed THEN BatchError
                                       ELSE RawMessage(f.messageIds[i])]
              missingMessageIds == MissingIds(batch, f.messageIds)
              messages == ParsedMessages(batch)
              answered == Append(trace, Event("batchResult", batch))
                              \o ItemErrorLogs(batch)
              nextRetryCount == NextRetryCount(f.retryCount)
          IN  IF Len(missingMessageIds) > 0
              THEN /\ stack' = Push(Pop(stack),
                                    [f EXCEPT !.pc = "sleep",
                                              !.messages = messages,
                                              !.missingMessageIds = missingMessageIds])
                   /\ settled' = settled
                   /\ trace' = answered
                                 \o <<Event("log.info",
                                            [msg |-> "Missing messages",
                                             missingMessageIds |-> missingMessageIds]),
                                      Event("sleep", Backoff(nextRetryCount))>>
              ELSE /\ stack' = Pop(stack)
                   /\ settled' = Return(messages)
                   /\ trace' = answered
    /\ UNCHANGED <<call, mailbox>>

\* The sleep ends: the recursive call of lines 97-101 runs to its first await.
GetMessagesBatchSleepResolved ==
    /\ Awaiting("getMessagesBatch", "sleep")
    /\ settled.kind = "pending"
    /\ LET f == Top(stack)
           r == EnterGetMessagesBatch(
                    Push(Pop(stack), [f EXCEPT !.pc = "awaitRetry"]),
                    Append(trace, Event("wake", Backoff(NextRetryCount(f.retryCount)))),
                    f.missingMessageIds,
                    NextRetryCount(f.retryCount))
       IN  /\ stack' = r.stack
           /\ settled' = r.settled
           /\ trace' = r.trace
    /\ UNCHANGED <<call, mailbox>>

\* The recursive call settles: line 102, or the rejection passes through.
GetMessagesBatchRetrySettled ==
    /\ Awaiting("getMessagesBatch", "awaitRetry")
    /\ settled.kind # "pending"
    /\ stack' = Pop(stack)
    /\ settled' = IF settled.kind = "return"
                  THEN Return(Concat(Top(stack).messages, settled.value))
                  ELSE settled
    /\ UNCHANGED <<call, trace, mailbox>>

---------------------------------------------------------------------------
(* getMessages, queryBatchMessages *)

\* getMessages: the list request built from its options (lines 200-206).
GetMessagesRequest(options) ==
    [userId |-> "me",
     maxResults |-> options.maxResults,
     q |-> options.query,
     pageToken |-> options.pageToken,
     labelIds |-> options.labelIds]

\* The parameter default of line 216: maxResults = 20.
MaxResultsOrDefault(maxResults) ==
    IF maxResults = None THEN DefaultMaxResults ELSE maxResults[1]

\* Variant: the page cap tested with >=.
PageTooLargeInclusive(maxResults) == maxResults >= MaxPageSize

\* maxResults > 20 (line 224).
PageTooLarge(maxResults) == maxResults > MaxPageSize

\* The code of queryBatchMessages from its invocation to its first await (or
\* to its throw).  getMessages is awaited for the list call it awaits.
EnterQueryBatchMessages(stk, tr, options) ==
    LET maxResults == MaxResultsOrDefault(options.maxResults) IN
    IF PageTooLarge(maxResults)
    THEN [stack |-> stk,
          settled |-> Throw(PageSizeError),
          trace |-> tr]
    ELSE [stack |-> Push(stk, [fn |-> "queryBatchMessages",
                               pc |-> "awaitList",
                               nextPageToken |-> Undefined]),
          settled |-> Pending,
          trace |-> Append(tr, Event("list",
                        GetMessagesRequest([query |-> options.query,
                                            maxResults |-> maxResults,
                                            pageToken |-> options.pageToken,
                                            labelIds |-> None])))]

ListCalls(tr) == SelectSeq(tr, LAMBDA e : e.ev = "list")

\* The answers the remote may give to list request `req`, the p-th of the
\* run: no messages field, or an item list (empty, MaxSmallPage items, or as
\* many as asked for) of fresh ids, the last item of a small page possibly
\* without an id; a token for the next page unless this is the last page the
\* remote holds.
ListResponses(req, p) ==
    LET sizes == {n \in {0, MaxSmallPage, req.maxResults} : n <= req.maxResults}
        tokens == {Undefined, Null} \cup
                  (IF p < MaxPages THEN {"t" \o ToString(p)} ELSE {})
        items(n, idless) ==
            [i \in 1..n |-> [id |-> IF idless /\ i = n THEN Undefined
                                    ELSE MessageId((p - 1) * MaxPageSize + i)]]
    IN  {[messages |-> None, nextPageToken |-> t] : t \in tokens}
        \cup {[messages |-> Some(items(n, FALSE)), nextPageToken |-> t] :
                 n \in sizes, t \in tokens}
        \cup {[messages |-> Some(items(n, TRUE)), nextPageToken |-> t] :
                 n \in sizes \cap (1..MaxSmallPage), t \in tokens}

\* messages.messages.map((m) => m.id).filter(isDefined)
DefinedIds(items) ==
    SelectSeq([i \in 1..Len(items) |-> items[i].id], LAMBDA id : id # Undefined)

\* A caller invokes queryBatchMessages(gmail, accessToken, options).
QueryBatchMessagesCall ==
    /\ Idle
    /\ \E maxResults \in {None, Some(1), Some(MaxPageSize), Some(MaxPageSize + 1)},
          pageToken \in {Undefined, "t0"} :
          LET options == [query |-> "q", maxResults |-> maxResults,
                          pageToken |-> pageToken]
              r == EnterQueryBatchMessages(stack, trace, options)
          IN  /\ call' = [fn |-> "queryBatchMessages", options |-> options]
              /\ stack' = r.stack
              /\ settled' = r.settled
              /\ trace' = r.trace
    /\ UNCHANGED mailbox

\* The list call resolves: lines 231-234 up to the await of getMessagesBatch.
QueryBatchMessagesListResolved ==
    /\ Awaiting("queryBatchMessages", "awaitList")
    /\ settled.kind = "pending"
    /\ LET calls == ListCalls(trace) IN
       \E messages \in ListResponses(calls[Len(calls)].arg, Len(calls)) :
          LET answered == Append(trace, Event("listResult", messages)) IN
          IF messages.messages = None
          THEN /\ stack' = Pop(stack)
               /\ settled' = Return([messages |-> <<>>, nextPageToken |-> Undefined])
               /\ trace' = answered
          ELSE LET messageIds == DefinedIds(messages.messages[1])
                   f == [Top(stack) EXCEPT !.pc = "awaitBatch",
                                           !.nextPageToken = messages.nextPageToken]
                   r == EnterGetMessagesBatch(Push(Pop(stack), f), answered,
                                              messageIds, 0)
               IN  /\ stack' = r.stack
                   /\ settled' = r.settled
                   /\ trace' = r.trace
    /\ UNCHANGED <<call, mailbox>>

\* getMessagesBatch settles: lines 233-236, or the rejection passes through.
QueryBatchMessagesBatchSettled ==
    /\ Awaiting("queryBatchMessages", "awaitBatch")
    /\ settled.kind # "pending"
    /\ stack' = Pop(stack)
    /\ settled' = IF settled.kind = "return"
                  THEN Return([messages |-> settled.value,
                               nextPageToken |-> Top(stack).nextPageToken])
                  ELSE settled
    /\ UNCHANGED <<call, trace, mailbox>>

---------------------------------------------------------------------------
(* queryBatchMessagesPages *)

\* Variant: the caller's maxResults handed on as the page size.
PageOptionsWithMaxResults(query, maxResults, nextPageToken) ==
    [query |-> query, maxResults |-> Some(maxResults), pageToken |-> nextPageToken]

\* Variant: the page token left out.
PageOptionsWithoutToken(query, maxResults, nextPageToken) ==
    [query |-> query, maxResults |-> None, pageToken |-> Undefined]

\* The options of lines 255-258: the query and the page token, no maxResults.
PageOptions(query, maxResults, nextPageToken) ==
    [query |-> query, maxResults |-> None, pageToken |-> nextPageToken]

\* nextToken || undefined
OrUndefined(nextToken) == IF Truthy(nextToken) THEN nextToken ELSE Undefined

\* Variant: the count tested with <=.
ContinuePagingInclusive(nextPageToken, length, maxResults) ==
    Truthy(nextPageToken) /\ length <= maxResults

\* Variant: the loop goes on without a token.
ContinuePagingWithoutToken(nextPageToken, length, maxResults) ==
    length < maxResults

\* Variant: the count not tested.
ContinuePagingUncounted(nextPageToken, length, maxResults) ==
    Truthy(nextPageToken)

\* The loop condition of line 261.
ContinuePaging(nextPageToken, length, maxResults) ==
    Truthy(nextPageToken) /\ length < maxResults

\* The label filter a caller puts into the options object: none, or a list of
\* label ids.  The parameter of lines 243-249 takes query and maxResults from
\* that object and nothing else.
LabelIdsArgs == {None, Some(<<"INBOX">>)}

\* A caller invokes queryBatchMessagesPages(gmail, accessToken, options): the
\* first iteration of the loop up to its await.
QueryBatchMessagesPagesCall ==
    /\ Idle
    /\ \E maxResults \in MaxResultsArgs, labelIds \in LabelIdsArgs :
          LET frame == [fn |-> "queryBatchMessagesPages",
                        pc |-> "awaitPage",
                        query |-> "q",
                        maxResults |-> maxResults,
                        messages |-> <<>>,
                        nextPageToken |-> Undefined]
              r == EnterQueryBatchMessages(Push(stack, frame), trace,
                                           PageOptions("q", maxResults, Undefined))
          IN  /\ call' = [fn |-> "queryBatchMessagesPages",
                          query |-> "q", maxResults |-> maxResults,
                          labelIds |-> labelIds]
              /\ stack' = r.stack
              /\ settled' = r.settled
              /\ trace' = r.trace
    /\ UNCHANGED mailbox

\* queryBatchMessages settles: lines 259-263, through the next iteration's
\* call when the loop goes on; a rejection passes through.
QueryBatchMessagesPagesPageSettled ==
    /\ Awaiting("queryBatchMessagesPages", "awaitPage")
    /\ settled.kind # "pending"
    /\ IF settled.kind = "throw"
       THEN /\ stack' = Pop(stack)
            /\ UNCHANGED <<settled, trace>>
       ELSE LET f == Top(stack)
                messages == f.messages \o settled.value.messages
                nextPageToken == OrUndefined(settled.value.nextPageToken)
            IN  IF ContinuePaging(nextPageToken, Len(messages), f.maxResults)
                THEN LET g == [f EXCEPT !.messages = messages,
                                        !.nextPageToken = nextPageToken]
                         r == EnterQueryBatchMessages(
                                  Push(Pop(stack), g), trace,
                                  PageOptions(f.query, f.maxResults, nextPageToken))
                     IN  /\ stack' = r.stack
                         /\ settled' = r.settled
                         /\ trace' = r.trace
                ELSE /\ stack' = Pop(stack)
                     /\ settled' = Return(messages)
                     /\ trace' = trace
    /\ UNCHANGED <<call, mailbox>>

---------------------------------------------------------------------------
(* getMessage and getMessageByRfc822Id (lines 17-54). *)

\* The longest Message-ID header value tried, in characters.
MaxRfc822Len == 3

\* Header values are sequences of characters, so that the removal of the
\* brackets is computed.
Rfc822Chars == {"<", "a", ">"}

Rfc822MessageIds ==
    UNION {[1..n -> Rfc822Chars] : n \in 0..MaxRfc822Len}

\* rfc822MessageId.replace(/[<>]/g, "") (line 37).
CleanMessageId(rfc822MessageId) ==
    SelectSeq(rfc822MessageId, LAMBDA c : c \notin {"<", ">"})

\* The list request of lines 39-43.
Rfc822Request(rfc822MessageId) ==
    [userId |-> "me",
     q |-> [operator |-> "rfc822msgid:",
            value |-> CleanMessageId(rfc822MessageId)],
     maxResults |-> 1]

\* The answers the remote may give to that request, which asks for one
\* message: no messages field, no item, one item without an id, or one item
\* with an id.
Rfc822ListResponses ==
    {[messages |-> None], [messages |-> Some(<<>>)],
     [messages |-> Some(<<[id |-> Undefined]>>)]}
    \cup {[messages |-> Some(<<[id |-> MessageId(n)]>>)] : n \in 1..MaxIds}

\* response.data.messages?.[0] (line 45) and its `id` (message?.id, line 46).
FirstMessageId(response) ==
    IF response.messages = None THEN Undefined
    ELSE IF Len(response.messages[1]) = 0 THEN Undefined
    ELSE response.messages[1][1].id

\* Variant: no match reported as an error.
NoMessageFoundThrowing == Throw("No message found")

\* return null (line 50).
NoMessageFound == Return(Null)

\* The code of getMessage up to its await (lines 22-26).
EnterGetMessage(stk, tr, messageId, format) ==
    [stack |-> Push(stk, [fn |-> "getMessage", pc |-> "awaitGet",
                          messageId |-> messageId]),
     trace |-> Append(tr, Event("get", [userId |-> "me", id |-> messageId,
                                        format |-> format]))]

\* A caller invokes getMessageByRfc822Id(rfc822MessageId, gmail): the code
\* runs to the await of the list call (lines 35-43).
GetMessageByRfc822IdCall ==
    /\ Idle
    /\ \E rfc822MessageId \in Rfc822MessageIds :
          /\ call' = [fn |-> "getMessageByRfc822Id",
                      rfc822MessageId |-> rfc822MessageId]
          /\ stack' = <<[fn |-> "getMessageByRfc822Id", pc |-> "awaitList",
                         rfc822MessageId |-> rfc822MessageId]>>
          /\ trace' = <<Event("list", Rfc822Request(rfc822MessageId))>>
    /\ UNCHANGED <<settled, mailbox>>

\* The list call answers: lines 45-53.
GetMessageByRfc822IdListResolved ==
    /\ Awaiting("getMessageByRfc822Id", "awaitList")
    /\ \E response \in Rfc822ListResponses :
          LET f == Top(stack)
              tr == Append(trace, Event("listResult", response))
              r == EnterGetMessage(
                       Push(Pop(stack), [f EXCEPT !.pc = "returnGetMessage"]),
                       tr, FirstMessageId(response), Undefined)
          IN  IF ~Truthy(FirstMessageId(response))
              THEN /\ stack' = Pop(stack)
                   /\ settled' = NoMessageFound
                   /\ trace' = Append(tr, Event("log.error",
                          [msg |-> "No message found for RFC822 Message-ID",
                           rfc822MessageId |-> f.rfc822MessageId]))
              ELSE /\ stack' = r.stack
                   /\ settled' = Pending
                   /\ trace' = r.trace
    /\ UNCHANGED <<call, mailbox>>

\* The get call answers or fails: getMessage returns message.data or throws
\* what the call threw (lines 22-28).
GetMessageGetResolved ==
    /\ Awaiting("getMessage", "awaitGet")
    /\ \E ok \in BOOLEAN :
          LET f == Top(stack)
          IN  /\ settled' = IF ok THEN Return(RawMessage(f.messageId))
                            ELSE Throw("GetError")
              /\ trace' = Append(trace, Event("getResult",
                                              [id |-> f.messageId, ok |-> ok]))
    /\ stack' = Pop(stack)
    /\ UNCHANGED <<call, mailbox>>

\* getMessageByRfc822Id settles as the promise it returned (line 53).
GetMessageByRfc822IdGetMessageSettled ==
    /\ Awaiting("getMessageByRfc822Id", "returnGetMessage")
    /\ settled.kind # "pending"
    /\ stack' = Pop(stack)
    /\ UNCHANGED <<call, settled, trace, mailbox>>

---------------------------------------------------------------------------
(* findPreviousEmailsWithSender, hasPreviousCommunicationWithSender and
   hasPreviousCommunicationsWithSenderOrDomain (lines 108-189). *)

\* The number of messages the mailbox may hold that match a search.
MaxMailboxIds == 3

MailboxIds == {MessageId(n) : n \in 1..MaxMailboxIds}

\* The mailboxes tried: the messages matching the incoming search and those
\* matching the outgoing search of the call.
Mailboxes == [incoming : SUBSET MailboxIds, outgoing : SUBSET MailboxIds]

\* The senders tried: a local part and a domain ("" when the address has
\* none), written local@domain.
Senders ==
    [local : {"a"},
     domain : {"gmail.com", "Gmail.com", "acme.com", "me.com", "hey.com", ""}]

Address(sender) ==
    IF sender.domain = "" THEN sender.local
    ELSE sender.local \o "@" \o sender.domain

\* The dates tried, in milliseconds since the epoch.
Dates == {1000, 1500}

\* extractDomainFromEmail(email): the domain of the address, "" when it has
\* none.
extractDomainFromEmail(email) ==
    (CHOOSE sender \in Senders : Address(sender) = email).domain

\* domain.toLowerCase(), for the domains of Senders.
toLowerCase(domain) ==
    IF domain = "Gmail.com" THEN "gmail.com" ELSE domain

\* +new Date(options.date) / 1000 (line 146): a quotient, kept exact as its
\* whole seconds and the remaining milliseconds.
DateInSeconds(date) == [seconds |-> date \div 1000, millis |-> date % 1000]

\* Lines 156-170.
PUBLIC_DOMAINS ==
    {"gmail.com", "yahoo.com", "hotmail.com", "outlook.com", "aol.com",
     "icloud.com", "@me.com", "protonmail.com", "zoho.com", "yandex.com",
     "fastmail.com", "gmx.com", "@hey.com"}

\* Variant: the domain looked up without lower-casing it.
SearchTermCaseSensitive(from, domain) ==
    IF domain \in PUBLIC_DOMAINS THEN from ELSE domain

\* Lines 180-182.
SearchTerm(from, domain) ==
    IF toLowerCase(domain) \in PUBLIC_DOMAINS THEN from ELSE domain

\* The two list requests of lines 118-128.
IncomingRequest(sender, dateInSeconds) ==
    [userId |-> "me",
     q |-> [field |-> "from:", term |-> sender, before |-> dateInSeconds],
     maxResults |-> 2]

OutgoingRequest(sender, dateInSeconds) ==
    [userId |-> "me",
     q |-> [field |-> "to:", term |-> sender, before |-> dateInSeconds],
     maxResults |-> 1]

\* The answers the remote may give to a search that `matching` messages
\* match: as many of them as the limit allows, in any order, each with its
\* id; no messages field, or an empty list, when nothing matches.
SenderListResponses(matching, maxResults) ==
    LET n == Min(maxResults, Cardinality(matching))
        lists == {l \in [1..n -> matching] :
                     \A i, j \in 1..n : i # j => l[i] # l[j]}
    IN  {[messages |-> Some([i \in 1..n |-> [id |-> l[i]]])] : l \in lists}
        \cup (IF n = 0 THEN {[messages |-> None]} ELSE {})

\* Variant: the outgoing messages left out.
AllMessagesIncomingOnly(incomingEmails, outgoingEmails) ==
    IF incomingEmails.messages = None THEN <<>> ELSE incomingEmails.messages[1]

\* Lines 132-135.
AllMessages(incomingEmails, outgoingEmails) ==
    (IF incomingEmails.messages = None THEN <<>> ELSE incomingEmails.messages[1])
    \o (IF outgoingEmails.messages = None THEN <<>> ELSE outgoingEmails.messages[1])

\* Variant: the current email not ignored.
HasPreviousEmailAny(previousEmails, messageId) ==
    \E i \in 1..Len(previousEmails) : TRUE

\* !!previousEmails?.find((p) => p.id !== options.messageId) (lines 149-151).
HasPreviousEmail(previousEmails, messageId) ==
    \E i \in 1..Len(previousEmails) : previousEmails[i].id # messageId

\* The code of findPreviousEmailsWithSender up to the await of Promise.all:
\* both list calls are made, incoming first (lines 116-129).
EnterFindPreviousEmailsWithSender(stk, tr, options) ==
    [stack |-> Push(stk, [fn |-> "findPreviousEmailsWithSender",
                          pc |-> "awaitAll",
                          incomingEmails |-> None,
                          outgoingEmails |-> None]),
     trace |-> tr \o <<Event("list", IncomingRequest(options.sender,
                                                     options.dateInSeconds)),
                       Event("list", OutgoingRequest(options.sender,
                                                     options.dateInSeconds))>>]

\* The code of hasPreviousCommunicationWithSender up to its await
\* (lines 144-147).
EnterHasPreviousCommunicationWithSender(stk, tr, options) ==
    EnterFindPreviousEmailsWithSender(
        Push(stk, [fn |-> "hasPreviousCommunicationWithSender",
                   pc |-> "awaitFind",
                   messageId |-> options.messageId]),
        tr,
        [sender |-> options.from,
         dateInSeconds |-> DateInSeconds(options.date)])

\* The code of hasPreviousCommunicationsWithSenderOrDomain (lines 176-188).
EnterHasPreviousCommunicationsWithSenderOrDomain(stk, tr, options) ==
    LET domain == extractDomainFromEmail(options.from)
        frame == [fn |-> "hasPreviousCommunicationsWithSenderOrDomain",
                  pc |-> "returnHasPrevious"]
    IN  IF ~Truthy(domain)
        THEN EnterHasPreviousCommunicationWithSender(Push(stk, frame), tr,
                                                     options)
        ELSE EnterHasPreviousCommunicationWithSender(
                 Push(stk, frame), tr,
                 [options EXCEPT !.from = SearchTerm(options.from, domain)])

SenderOptions ==
    {[from |-> Address(sender), date |-> date, messageId |-> messageId] :
        sender \in Senders, date \in Dates, messageId \in MailboxIds}

\* A caller invokes hasPreviousCommunicationsWithSenderOrDomain(gmail,
\* options) on some mailbox.
HasPreviousCommunicationsWithSenderOrDomainCall ==
    /\ Idle
    /\ \E options \in SenderOptions :
          LET r == EnterHasPreviousCommunicationsWithSenderOrDomain(
                       stack, trace, options)
          IN  /\ call' = [fn |-> "hasPreviousCommunicationsWithSenderOrDomain",
                          options |-> options]
              /\ stack' = r.stack
              /\ trace' = r.trace
    /\ mailbox' \in Mailboxes
    /\ UNCHANGED settled

\* A caller invokes hasPreviousCommunicationWithSender(gmail, options) on
\* some mailbox.
HasPreviousCommunicationWithSenderCall ==
    /\ Idle
    /\ \E options \in SenderOptions :
          LET r == EnterHasPreviousCommunicationWithSender(stack, trace,
                                                           options)
          IN  /\ call' = [fn |-> "hasPreviousCommunicationWithSender",
                          options |-> options]
              /\ stack' = r.stack
              /\ trace' = r.trace
    /\ mailbox' \in Mailboxes
    /\ UNCHANGED settled

\* The list request of the run whose query starts with `field`.
SenderRequest(tr, field) ==
    LET es == SelectSeq(tr, LAMBDA e : e.ev = "list" /\ e.arg.q.field = field)
    IN  es[1].arg

\* The incoming search answers while Promise.all is awaited.
IncomingListResolved ==
    /\ Awaiting("findPreviousEmailsWithSender", "awaitAll")
    /\ Top(stack).incomingEmails = None
    /\ \E response \in SenderListResponses(
                           mailbox.incoming,
                           SenderRequest(trace, "from:").maxResults) :
          /\ stack' = Push(Pop(stack),
                           [Top(stack) EXCEPT !.incomingEmails = Some(response)])
          /\ trace' = Append(trace, Event("listResult",
                                          [field |-> "from:",
                                           messages |-> response.messages]))
    /\ UNCHANGED <<call, settled, mailbox>>

\* The outgoing search answers while Promise.all is awaited.
OutgoingListResolved ==
    /\ Awaiting("findPreviousEmailsWithSender", "awaitAll")
    /\ Top(stack).outgoingEmails = None
    /\ \E response \in SenderListResponses(
                           mailbox.outgoing,
                           SenderRequest(trace, "to:").maxResults) :
          /\ stack' = Push(Pop(stack),
                           [Top(stack) EXCEPT !.outgoingEmails = Some(response)])
          /\ trace' = Append(trace, Event("listResult",
                                          [field |-> "to:",
                                           messages |-> response.messages]))
    /\ UNCHANGED <<call, settled, mailbox>>

\* Both searches have answered: Promise.all resolves and
\* findPreviousEmailsWithSender returns allMessages (lines 131-137).
FindPreviousEmailsWithSenderAllResolved ==
    /\ Awaiting("findPreviousEmailsWithSender", "awaitAll")
    /\ Top(stack).incomingEmails # None
    /\ Top(stack).outgoingEmails # None
    /\ settled' = Return(AllMessages(Top(stack).incomingEmails[1],
                                     Top(stack).outgoingEmails[1]))
    /\ stack' = Pop(stack)
    /\ UNCHANGED <<call, trace, mailbox>>

\* findPreviousEmailsWithSender has returned: lines 148-153.
HasPreviousCommunicationWithSenderFindSettled ==
    /\ Awaiting("hasPreviousCommunicationWithSender", "awaitFind")
    /\ settled.kind = "return"
    /\ settled' = Return(HasPreviousEmail(settled.value, Top(stack).messageId))
    /\ stack' = Pop(stack)
    /\ UNCHANGED <<call, trace, mailbox>>

\* hasPreviousCommunicationsWithSenderOrDomain settles as the promise it
\* returned (lines 177, 185).
HasPreviousCommunicationsWithSenderOrDomainSettled ==
    /\ Awaiting("hasPreviousCommunicationsWithSenderOrDomain",
                "returnHasPrevious")
    /\ settled.kind # "pending"
    /\ stack' = Pop(stack)
    /\ UNCHANGED <<call, settled, trace, mailbox>>

---------------------------------------------------------------------------
(* Specification of a getMessagesBatch call. *)

Init ==
    /\ call = [fn |-> "none"]
    /\ stack = <<>>
    /\ settled = Pending
    /\ trace = <<>>
    /\ mailbox = NoMailbox

Next ==
    \/ GetMessagesBatchCall
    \/ GetMessagesBatchBatchResolved
    \/ GetMessagesBatchSleepResolved
    \/ GetMessagesBatchRetrySettled

Spec == Init /\ [][Next]_vars

\* The remote answers every batchGet and every timer fires.
FairSpec ==
    /\ Spec
    /\ WF_vars(GetMessagesBatchBatchResolved)
    /\ WF_vars(GetMessagesBatchSleepResolved)
    /\ WF_vars(GetMessagesBatchRetrySettled)

---------------------------------------------------------------------------
(* Specification of a queryBatchMessages or queryBatchMessagesPages call. *)

QueryNext ==
    \/ QueryBatchMessagesCall
    \/ QueryBatchMessagesPagesCall
    \/ QueryBatchMessagesListResolved
    \/ QueryBatchMessagesBatchSettled
    \/ QueryBatchMessagesPagesPageSettled
    \/ GetMessagesBatchBatchResolved
    \/ GetMessagesBatchSleepResolved
    \/ GetMessagesBatchRetrySettled

QuerySpec == Init /\ [][QueryNext]_vars

\* The remote answers every list and batchGet call, every timer fires and
\* every settled promise resumes its awaiter.
FairQuerySpec ==
    /\ QuerySpec
    /\ WF_vars(QueryBatchMessagesListResolved)
    /\ WF_vars(QueryBatchMessagesBatchSettled)
    /\ WF_vars(QueryBatchMessagesPagesPageSettled)
    /\ WF_vars(GetMessagesBatchBatchResolved)
    /\ WF_vars(GetMessagesBatchSleepResolved)
    /\ WF_vars(GetMessagesBatchRetrySettled)

---------------------------------------------------------------------------
(* Specification of a getMessageByRfc822Id call. *)

LookupNext ==
    \/ GetMessageByRfc822IdCall
    \/ GetMessageByRfc822IdListResolved
    \/ GetMessageGetResolved
    \/ GetMessageByRfc822IdGetMessageSettled

LookupSpec == Init /\ [][LookupNext]_vars

---------------------------------------------------------------------------
(* Specification of a hasPreviousCommunicationsWithSenderOrDomain or
   hasPreviousCommunicationWithSender call. *)

SenderNext ==
    \/ HasPreviousCommunicationsWithSenderOrDomainCall
    \/ HasPreviousCommunicationWithSenderCall
    \/ IncomingListResolved
    \/ OutgoingListResolved
    \/ FindPreviousEmailsWithSenderAllResolved
    \/ HasPreviousCommunicationWithSenderFindSettled
    \/ HasPreviousCommunicationsWithSenderOrDomainSettled

SenderSpec == Init /\ [][SenderNext]_vars

---------------------------------------------------------------------------
(* What a run has done so far, read from the trace. *)

Events(ev) == SelectSeq(trace, LAMBDA e : e.ev = ev)

Args(ev) == [k \in 1..Len(Events(ev)) |-> Events(ev)[k].arg]

\* The id lists of the batchGet calls issued, and the answers received.
Requests == Args("batchGet")
Results == Args("batchResult")

\* The ids the k-th batchGet call answered with an error.
FailedIds(k) == {Requests[k][i] : i \in Range(ErrorPositions(Results[k]))}

\* The calls, suspensions and wake-ups of the run, in order.
Schedule ==
    LET es == SelectSeq(trace, LAMBDA e : e.ev \in {"batchGet", "sleep", "wake"})
    IN  [k \in 1..Len(es) |-> es[k].ev]

Abandoned(id) ==
    \E k \in 1..Len(trace) :
        /\ trace[k].ev = "log.error"
        /\ trace[k].arg.msg = "Too many retries"
        /\ id \in Range(trace[k].arg.messageIds)

Done == ~Idle /\ Len(stack) = 0 /\ settled.kind # "pending"

Returned == Done /\ settled.kind = "return"

FetchCall == call.fn = "getMessagesBatch"

TopLevelFetch == FetchCall /\ call.retryCount = 0

Parsed(id) == parseMessage(RawMessage(id))

\* How many times the returned list holds the parsed message of `id`.
Occurrences(id) ==
    Cardinality({i \in 1..Len(settled.value) : settled.value[i] = Parsed(id)})

---------------------------------------------------------------------------
(* Claims about getMessagesBatch. *)

\* C1: a top-level call (retryCount 0) with at most 100 ids whose batch
\* answers hold no error returns exactly one parsed message per requested id,
\* none twice and none missing, after exactly one batchGet call and no sleep.
C1_AllSuccessOnePerId ==
    (/\ TopLevelFetch
     /\ Len(call.messageIds) <= 100
     /\ Done
     /\ \A k \in 1..Len(Results) : Len(ErrorPositions(Results[k])) = 0)
    => /\ settled.kind = "return"
       /\ Len(settled.value) = Len(call.messageIds)
       /\ \A id \in Range(call.messageIds) : Occurrences(id) = 1
       /\ Len(Requests) = 1
       /\ Len(Events("sleep")) = 0

C1_Witness ==
    /\ TopLevelFetch
    /\ Len(call.messageIds) = 100
    /\ Returned
    /\ Len(settled.value) = 100
    /\ Len(Requests) = 1

\* C2 as stated: for more than 100 ids, whatever retryCount is, the call
\* throws the validation error and makes no batchGet call and no sleep.
C2_ThrowsForAnyRetryCount ==
    (FetchCall /\ Len(call.messageIds) > 100)
    => /\ settled.kind = "throw"
       /\ Len(Requests) = 0
       /\ Len(Events("sleep")) = 0

\* C2, amended: for more than 100 ids the call makes no batchGet call and no
\* sleep whatever retryCount is; it throws the validation error when
\* retryCount <= 3, and returns the empty list when retryCount > 3 (the retry
\* bound is tested first).
C2_ThrowsWithinRetryBound ==
    (FetchCall /\ Len(call.messageIds) > 100)
    => /\ Done
       /\ Len(Requests) = 0
       /\ Len(Events("sleep")) = 0
       /\ IF call.retryCount <= 3
          THEN settled.kind = "throw" /\ settled.value = BatchSizeError
          ELSE settled.kind = "return" /\ Len(settled.value) = 0

C2_Witness ==
    /\ FetchCall
    /\ Len(call.messageIds) > 100
    /\ call.retryCount = 3
    /\ settled.kind = "throw"
    /\ Len(trace) = 0

\* C3: a top-level call issues at most 4 batchGet calls, whatever the remote
\* fails, and (for at most 100 ids) it then returns.
C3_AtMostFourBatchCalls ==
    /\ [](TopLevelFetch => Len(Requests) <= 4)
    /\ (TopLevelFetch /\ Len(call.messageIds) <= 100) ~> Returned

C3_Witness ==
    /\ TopLevelFetch
    /\ Returned
    /\ Len(Requests) = 4
    /\ FailedIds(4) # {}

\* C4: when one id fails in the first and in the second attempt and succeeds
\* in the third, every other id succeeding in the first, the call returns the
\* parsed message of that id, logs exactly two item errors and sleeps exactly
\* twice, 1000 ms then 2000 ms, each sleep between an attempt and the next.
C4_TwoFailuresThenSuccess ==
    \A id \in (IF TopLevelFetch THEN Range(call.messageIds) ELSE {}) :
        (/\ Done
         /\ Len(Results) = 3
         /\ FailedIds(1) = {id}
         /\ FailedIds(2) = {id}
         /\ FailedIds(3) = {})
        => /\ settled.kind = "return"
           /\ Occurrences(id) = 1
           /\ ItemErrors(trace) = 2
           /\ Args("sleep") = <<1000, 2000>>
           /\ Args("wake") = <<1000, 2000>>
           /\ Schedule = <<"batchGet", "sleep", "wake",
                           "batchGet", "sleep", "wake", "batchGet">>

C4_Witness ==
    /\ TopLevelFetch
    /\ Returned
    /\ Len(call.messageIds) = 3
    /\ Len(Results) = 3
    /\ FailedIds(1) = {call.messageIds[2]}
    /\ FailedIds(2) = {call.messageIds[2]}
    /\ FailedIds(3) = {}
    /\ Len(settled.value) = 3

\* The ids that failed in each of the four attempts of a top-level call, and
\* those that succeeded in one of its attempts.
FailedAlways ==
    IF Len(Results) = 4
    THEN FailedIds(1) \cap FailedIds(2) \cap FailedIds(3) \cap FailedIds(4)
    ELSE {}

SucceededOnce ==
    UNION {Range(Requests[k]) \ FailedIds(k) : k \in 1..Len(Results)}

\* C5: when an id has failed in all 4 attempts of a top-level call, the result
\* omits it and its abandonment is logged, and the result holds the parsed
\* message of every id that succeeded in any attempt.
C5_ExhaustedDroppedOthersKept ==
    (TopLevelFetch /\ Done /\ FailedAlways # {})
    => /\ settled.kind = "return"
       /\ \A id \in FailedAlways : Occurrences(id) = 0 /\ Abandoned(id)
       /\ \A id \in SucceededOnce : Occurrences(id) = 1

C5_Witness ==
    /\ TopLevelFetch
    /\ Returned
    /\ Len(call.messageIds) = 3
    /\ FailedAlways = {call.messageIds[1]}
    /\ FailedIds(1) = Range(call.messageIds)
    /\ FailedIds(2) = {call.messageIds[1], call.messageIds[3]}
    /\ Len(settled.value) = 2

\* The attempts a call entered with retryCount makes before it gives up.
AttemptsLeft == IF call.retryCount > 3 THEN 0 ELSE 4 - call.retryCount

Delivered(id) == Occurrences(id) = 1

Dropped(id) ==
    /\ Occurrences(id) = 0
    /\ Len(Results) = AttemptsLeft
    /\ \A k \in 1..Len(Results) : id \in FailedIds(k)

\* C6: when a call returns, every requested id is either delivered (its
\* parsed message is in the result exactly once) or dropped (it failed in
\* every attempt up to the retry bound and is not in the result), never both,
\* and the result holds nothing but parsed messages of requested ids.
C6_DeliveredOrDropped ==
    (FetchCall /\ Returned)
    => /\ \A id \in Range(call.messageIds) : Delivered(id) # Dropped(id)
       /\ \A i \in 1..Len(settled.value) :
             \E id \in Range(call.messageIds) : settled.value[i] = Parsed(id)

C6_Witness ==
    /\ TopLevelFetch
    /\ Returned
    /\ Len(call.messageIds) = 3
    /\ Dropped(call.messageIds[3])
    /\ Delivered(call.messageIds[1])
    /\ Delivered(call.messageIds[2])
    /\ call.messageIds[1] \in FailedIds(1)

\* C7: a call with at most 100 ids never throws, whatever the remote fails:
\* it runs on until it returns a list no longer than the request.
C7_ItemFailuresNeverThrow ==
    (FetchCall /\ Len(call.messageIds) <= 100)
    => /\ settled.kind # "throw"
       /\ Done \/ ENABLED Next
       /\ Done => settled.kind = "return" /\ Len(settled.value) <= Len(call.messageIds)

C7_Witness ==
    /\ TopLevelFetch
    /\ Returned
    /\ Len(Results) = 4
    /\ Len(settled.value) < Len(call.messageIds)

---------------------------------------------------------------------------
(* Claims about queryBatchMessages and queryBatchMessagesPages. *)

PageCall == call.fn = "queryBatchMessages"

PagesCall == call.fn = "queryBatchMessagesPages"

ThrewPageSizeError == settled.kind = "throw" /\ settled.value = PageSizeError

\* C8: queryBatchMessages called with maxResults > 20 throws the page-size
\* error before any list or batchGet call; called with maxResults <= 20 (or
\* with none) it does not throw that error.
C8_PageSizeRejected ==
    PageCall =>
        IF call.options.maxResults # None /\ call.options.maxResults[1] > 20
        THEN /\ ThrewPageSizeError
             /\ Len(stack) = 0
             /\ Len(ListCalls(trace)) = 0
             /\ Len(Requests) = 0
        ELSE ~ThrewPageSizeError

C8_Witness ==
    /\ PageCall
    /\ call.options.maxResults = Some(21)
    /\ Done
    /\ ThrewPageSizeError
    /\ Len(trace) = 0

\* The ids each list answer carried, and the tokens it carried.
ListResults == Args("listResult")

PageIdCounts ==
    [k \in 1..Len(ListResults) |->
        IF ListResults[k].messages = None THEN 0
        ELSE Len(DefinedIds(ListResults[k].messages[1]))]

\* A page has come back to the loop of queryBatchMessagesPages.
PageReturned ==
    /\ Awaiting("queryBatchMessagesPages", "awaitPage")
    /\ settled.kind = "return"

CarriesToken(page) == page.nextPageToken \notin {Undefined, Null}

\* The step the loop takes on a page: it asks for another page, with that
\* page's token, exactly when the page carried a token and the count with the
\* page appended in full is below maxResults; otherwise it returns that list.
LoopStep ==
    PageReturned =>
        LET page == settled.value
            all == Top(stack).messages \o page.messages
        IN  IF CarriesToken(page) /\ Len(all) < call.maxResults
            THEN /\ Len(ListCalls(trace')) = Len(ListCalls(trace)) + 1
                 /\ trace'[Len(trace')].ev = "list"
                 /\ trace'[Len(trace')].arg.pageToken = page.nextPageToken
                 /\ Len(stack') = 2
                 /\ stack'[1].messages = all
            ELSE /\ trace' = trace
                 /\ Len(stack') = 0
                 /\ settled'.kind = "return"
                 /\ settled'.value = all

\* C9: queryBatchMessagesPages asks for another page after a page if and only
\* if that page carried a nextPageToken and the accumulated count is below
\* maxResults, the page that reaches the bound being appended in full: with
\* maxResults 45 and no item error, pages of 20, 20, 20 ids give 60 messages,
\* and pages of 20, 20, 3 ids (no token on the third) give 43.
C9_PagingStopsOnTokenOrCount ==
    /\ [][LoopStep]_vars
    /\ []((PagesCall /\ Done /\ call.maxResults = 45 /\ ItemErrors(trace) = 0)
          => /\ PageIdCounts = <<20, 20, 20>>
                => settled.kind = "return" /\ Len(settled.value) = 60
             /\ (/\ PageIdCounts = <<20, 20, 3>>
                 /\ ~CarriesToken(ListResults[3]))
                => settled.kind = "return" /\ Len(settled.value) = 43)

C9_Witness ==
    /\ PagesCall
    /\ Returned
    /\ call.maxResults = 45
    /\ PageIdCounts = <<20, 20, 20>>
    /\ CarriesToken(ListResults[2])
    /\ Len(settled.value) = 60

\* C10: every list call of a queryBatchMessagesPages run asks for at most 20
\* results, whatever maxResults the caller gave, and the run never throws the
\* page-size error.
C10_PagesRequestAtMostTwenty ==
    PagesCall =>
        /\ \A k \in 1..Len(ListCalls(trace)) : ListCalls(trace)[k].arg.maxResults <= 20
        /\ ~ThrewPageSizeError

C10_Witness ==
    /\ PagesCall
    /\ call.maxResults > 20
    /\ Returned
    /\ Len(ListCalls(trace)) = 3
    /\ \A k \in 1..3 : ListCalls(trace)[k].arg.maxResults = 20

\* C14: when the list call of queryBatchMessages returns no id (no messages
\* field, an empty list, or items without an id), queryBatchMessages makes no
\* batchGet call and returns an empty page without a nextPageToken.
C14_NoIdsNoBatchCall ==
    (PageCall /\ Len(ListResults) = 1 /\ PageIdCounts[1] = 0)
    => /\ Len(Requests) = 0
       /\ Done => /\ settled.kind = "return"
                  /\ Len(settled.value.messages) = 0
                  /\ settled.value.nextPageToken = Undefined

\* C17: every list call of a queryBatchMessagesPages run carries the label
\* filter of the call unchanged, together with its query string.
C17_LabelIdsPassedToList ==
    PagesCall =>
        \A k \in 1..Len(ListCalls(trace)) :
            /\ ListCalls(trace)[k].arg.q = call.query
            /\ ListCalls(trace)[k].arg.labelIds = call.labelIds

---------------------------------------------------------------------------
(* Claims about the retries of getMessagesBatch. *)

\* C15: a call entered with retryCount > 3 returns the empty list, for any id
\* list, after logging the ids it gives up; it makes no batchGet call and no
\* sleep.
C15_EntryBeyondRetryBound ==
    (FetchCall /\ call.retryCount > 3)
    => /\ Returned
       /\ Len(settled.value) = 0
       /\ Len(trace) = 1
       /\ trace[1].ev = "log.error"
       /\ trace[1].arg.msg = "Too many retries"
       /\ trace[1].arg.messageIds = call.messageIds

C15_Witness ==
    /\ FetchCall
    /\ call.retryCount = 4
    /\ Len(call.messageIds) = 101
    /\ Returned
    /\ Abandoned(call.messageIds[101])

\* C18: each retry asks for exactly the ids whose position held an error in
\* the attempt before it, each once, with retryCount one higher; an id that
\* succeeded is never asked for again, and the requests never grow.
C18_RetryRequestsFailedIds ==
    FetchCall =>
        /\ \A k \in 2..Len(Requests) :
              /\ Range(Requests[k]) = FailedIds(k - 1)
              /\ Len(Requests[k]) = Cardinality(FailedIds(k - 1))
              /\ Len(Requests[k]) <= Len(Requests[k - 1])
              /\ \A j \in 1..(k - 1) :
                    (Range(Requests[j]) \ FailedIds(j)) \cap Range(Requests[k]) = {}
        /\ \A i \in 1..Len(stack) :
              /\ stack[i].messageIds = Requests[i]
              /\ stack[i].retryCount = call.retryCount + i - 1

C18_Witness ==
    /\ TopLevelFetch
    /\ Len(stack) = 3
    /\ Len(Requests[1]) = 3
    /\ Len(Requests[2]) = 2
    /\ Len(Requests[3]) = 1
    /\ stack[3].retryCount = 2

\* The batchGet calls, their answers, the suspensions and the wake-ups of the
\* run, in order.
Timeline ==
    LET es == SelectSeq(trace, LAMBDA e :
                  e.ev \in {"batchGet", "batchResult", "sleep", "wake"})
    IN  [k \in 1..Len(es) |-> es[k].ev]

\* C19: the attempts of a call are sequential: a batchGet call is issued only
\* after the answer to the one before it and after the sleep that follows it
\* has ended, the sleep before retry level k lasting k x 1000 ms; no two
\* batchGet calls are in flight together.
C19_RetriesSequential ==
    FetchCall =>
        /\ \A i \in 1..Len(Timeline) :
              Timeline[i] = <<"batchGet", "batchResult", "sleep", "wake">>[((i - 1) % 4) + 1]
        /\ Len(Requests) - Len(Results) \in {0, 1}
        /\ \A k \in 1..Len(Args("sleep")) :
              Args("sleep")[k] = (call.retryCount + k) * 1000
        /\ \A k \in 1..Len(Args("wake")) :
              Args("wake")[k] = (call.retryCount + k) * 1000

C19_Witness ==
    /\ TopLevelFetch
    /\ Returned
    /\ Len(Requests) = 4
    /\ FailedIds(4) = {}
    /\ Args("wake") = <<1000, 2000, 3000>>

\* C20 as stated: in a top-level call every sleep is followed by a retry, so
\* there is one sleep less than batchGet calls, and at most 3 sleeps.
C20_OneSleepLessThanCalls ==
    (TopLevelFetch /\ Returned)
    => /\ Len(Args("sleep")) = Len(Requests) - 1
       /\ Len(Args("sleep")) <= 3

\* C20, amended: in a top-level call that gives up no id there is one sleep
\* less than batchGet calls (at most 3: 1000, 2000, 3000 ms); when ids still
\* fail in the 4th batchGet call, a 4th sleep of 4000 ms is spent before they
\* are given up, so there are 4 sleeps for 4 batchGet calls.
C20_SleepBeforeGivingUp ==
    (TopLevelFetch /\ Returned)
    => /\ Args("sleep") = SubSeq(<<1000, 2000, 3000, 4000>>, 1, Len(Args("sleep")))
       /\ IF FailedIds(Len(Requests)) = {}
          THEN Len(Args("sleep")) = Len(Requests) - 1
          ELSE Len(Requests) = 4 /\ Len(Args("sleep")) = 4

C20_Witness ==
    /\ TopLevelFetch
    /\ Returned
    /\ Len(Requests) = 4
    /\ Args("sleep") = <<1000, 2000, 3000, 4000>>
    /\ Schedule[Len(Schedule)] = "wake"

---------------------------------------------------------------------------
(* Claims about getMessageByRfc822Id. *)

LookupCall == call.fn = "getMessageByRfc822Id"

\* The list answer holds no item that carries an id.
NoItemWithId(response) ==
    \/ response.messages = None
    \/ \A i \in 1..Len(response.messages[1]) :
          response.messages[1][i].id = Undefined

\* C16: getMessageByRfc822Id reports no match as null, not as an error: when
\* the list answer holds no item with an id it returns null and makes no get
\* call; when it holds an item with an id it makes exactly one get call, for
\* the id of the first item.
C16_NoMatchIsNull ==
    LookupCall =>
        IF Len(Args("listResult")) = 0
        THEN Len(Events("get")) = 0
        ELSE IF NoItemWithId(Args("listResult")[1])
        THEN /\ Len(Events("get")) = 0
             /\ Done
             /\ settled.kind = "return"
             /\ settled.value = Null
        ELSE /\ Len(Events("get")) = 1
             /\ Args("get")[1].id = Args("listResult")[1].messages[1][1].id

C16_Witness ==
    /\ LookupCall
    /\ Done
    /\ Len(Args("listResult")) = 1
    /\ Args("listResult")[1].messages = Some(<<>>)
    /\ settled = Return(Null)
    /\ call.rfc822MessageId = <<"<", "a", ">">>

---------------------------------------------------------------------------
(* Claims about the sender history. *)

OrDomainCall == call.fn = "hasPreviousCommunicationsWithSenderOrDomain"

SenderCall ==
    OrDomainCall \/ call.fn = "hasPreviousCommunicationWithSender"

\* The ids the search whose query starts with `field` has returned.
ReturnedIds(field) ==
    LET rs == SelectSeq(Args("listResult"), LAMBDA r : r.field = field)
    IN  UNION {IF rs[k].messages = None THEN {}
               ELSE {rs[k].messages[1][i].id :
                        i \in 1..Len(rs[k].messages[1])} : k \in 1..Len(rs)}

\* C11: the call returns true exactly when the ids returned by the incoming
\* and the outgoing search, taken together, hold an id other than the
\* messageId of the call; so it returns false when they hold that id only or
\* no id at all.
C11_TrueIffOtherIdReturned ==
    (SenderCall /\ Done)
    => /\ settled.kind = "return"
       /\ settled.value =
            ((ReturnedIds("from:") \cup ReturnedIds("to:"))
                 \ {call.options.messageId} # {})

C11_Witness ==
    /\ SenderCall
    /\ Done
    /\ ReturnedIds("from:") = {call.options.messageId}
    /\ ReturnedIds("to:") = {call.options.messageId}
    /\ settled = Return(FALSE)

\* C12: for a sender whose domain can be extracted, both searches use one
\* term: the sender's full address when the lower-cased domain is in
\* PUBLIC_DOMAINS, the bare domain otherwise (a@gmail.com is searched as
\* a@gmail.com, a@acme.com as acme.com).
C12_TermByPublicDomain ==
    LET from == call.options.from
        domain == extractDomainFromEmail(from)
        terms == {Args("list")[k].q.term : k \in 1..Len(Args("list"))}
    IN  (OrDomainCall /\ domain # "")
        => /\ Len(Args("list")) = 2
           /\ terms = {IF toLowerCase(domain) \in PUBLIC_DOMAINS
                       THEN from ELSE domain}
           /\ from = "a@gmail.com" => terms = {"a@gmail.com"}
           /\ from = "a@Gmail.com" => terms = {"a@Gmail.com"}
           /\ from = "a@acme.com" => terms = {"acme.com"}

C12_Witness ==
    /\ OrDomainCall
    /\ Done
    /\ call.options.from = "a@acme.com"
    /\ Args("list")[1].q.term = "acme.com"
    /\ Args("list")[2].q.term = "acme.com"

\* C13: the incoming search (from: the term, at most 2 results) and the
\* outgoing search (to: the term, at most 1 result) are both issued before
\* either is answered; the call settles only after both are answered; its
\* result depends on what the two searches returned, not on which answered
\* first.
C13_BothIssuedBothAwaited ==
    SenderCall =>
        /\ Len(trace) >= 2
        /\ trace[1].ev = "list" /\ trace[2].ev = "list"
        /\ trace[1].arg.q.field = "from:" /\ trace[1].arg.maxResults = 2
        /\ trace[2].arg.q.field = "to:" /\ trace[2].arg.maxResults = 1
        /\ trace[1].arg.q.term = trace[2].arg.q.term
        /\ Len(Events("list")) = 2
        /\ settled.kind # "pending" =>
              /\ Len(Args("listResult")) = 2
              /\ {Args("listResult")[k].field : k \in 1..2} = {"from:", "to:"}
        /\ Done =>
              /\ settled.kind = "return"
              /\ settled.value =
                    (\E id \in ReturnedIds("from:") \cup ReturnedIds("to:") :
                        id # call.options.messageId)

C13_Witness ==
    /\ SenderCall
    /\ Done
    /\ trace[3].arg.field = "to:"
    /\ trace[4].arg.field = "from:"
    /\ ReturnedIds("to:") # {}
    /\ ReturnedIds("to:") \cap ReturnedIds("from:") = {}
    /\ settled = Return(TRUE)

---------------------------------------------------------------------------
(* Claims about the order of results, the page tokens, the end of paging and
   the reach of the sender searches. *)

\* The ids of the returned messages, in the order returned.
ResultIds == [i \in 1..Len(settled.value) |-> settled.value[i].id]

\* The ids that succeeded in the k-th attempt, in the order of its request.
SucceededIn(k) ==
    IF k > Len(Results) THEN <<>>
    ELSE LET failed == FailedIds(k)
             request == Requests[k]
         IN  SelectSeq(request, LAMBDA id : id \notin failed)

\* C21: the returned messages are in retrieval order: those of an earlier
\* attempt come before those of a later one, and those of one attempt are in
\* the order of that attempt's request; with no failure the order is that of
\* the caller's ids.
C21_RetrievalOrder ==
    (FetchCall /\ Returned) =>
        /\ Len(Results) <= 4
        /\ ResultIds = SucceededIn(1) \o SucceededIn(2)
                          \o SucceededIn(3) \o SucceededIn(4)
        /\ (Len(Results) = 1 /\ FailedIds(1) = {})
              => ResultIds = call.messageIds

C21_Witness ==
    /\ TopLevelFetch
    /\ Returned
    /\ Len(call.messageIds) = 3
    /\ FailedIds(1) = {call.messageIds[1]}
    /\ ResultIds = <<call.messageIds[2], call.messageIds[3], call.messageIds[1]>>

\* C22: in a queryBatchMessagesPages run the first list call carries no page
\* token, every later list call carries the nextPageToken of the list answer
\* just before it, and no token is used in two list calls: each page is asked
\* for once.
C22_TokenChain ==
    PagesCall =>
        LET calls == ListCalls(trace)
        IN  /\ Len(calls) >= 1
            /\ calls[1].arg.pageToken = Undefined
            /\ Len(calls) - Len(ListResults) \in {0, 1}
            /\ \A k \in 2..Len(calls) :
                  /\ CarriesToken(ListResults[k - 1])
                  /\ calls[k].arg.pageToken = ListResults[k - 1].nextPageToken
            /\ \A j, k \in 1..Len(calls) :
                  j # k => calls[j].arg.pageToken # calls[k].arg.pageToken

C22_Witness ==
    /\ PagesCall
    /\ Returned
    /\ Len(ListCalls(trace)) = 3
    /\ ListCalls(trace)[2].arg.pageToken = "t1"
    /\ ListCalls(trace)[3].arg.pageToken = "t2"
    /\ ~CarriesToken(ListResults[3])

\* C23: a queryBatchMessagesPages run returns in the end when the remote's
\* chain of pages is finite, whatever maxResults is and whichever items fail
\* in the batch calls; it makes a list call only after a page that carried a
\* token, so never more list calls than the chain has pages.
C23_PagesEventuallyReturn ==
    /\ PagesCall ~> (PagesCall /\ Returned)
    /\ [](PagesCall =>
            /\ Len(ListCalls(trace)) <= MaxPages
            /\ \A k \in 1..(Len(ListCalls(trace)) - 1) :
                  CarriesToken(ListResults[k]))

C23_Witness ==
    /\ PagesCall
    /\ Returned
    /\ Len(ListCalls(trace)) = MaxPages
    /\ ItemErrors(trace) >= 2
    /\ Len(Args("sleep")) >= 2

\* C24: with maxResults >= 1 and a remote that returns at most as many ids
\* as the page size asked for, a queryBatchMessagesPages run returns fewer
\* than maxResults + 20 messages, and the count accumulated before each page
\* it asks for, the last one included, is below maxResults.
C24_OvershootBelowOnePage ==
    (PagesCall /\ call.maxResults >= 1) =>
        /\ \A k \in 1..Len(ListResults) :
              PageIdCounts[k] <= ListCalls(trace)[k].arg.maxResults
        /\ Len(stack) >= 1 => Len(stack[1].messages) < call.maxResults
        /\ Returned =>
              /\ Len(settled.value) < call.maxResults + 20
              /\ Len(settled.value) - PageIdCounts[Len(PageIdCounts)]
                    < call.maxResults

C24_Witness ==
    /\ PagesCall
    /\ Returned
    /\ call.maxResults = 20
    /\ PageIdCounts = <<MaxSmallPage, 20>>
    /\ Len(settled.value) = MaxSmallPage + 20

\* C25: the limits 2 and 1 of the two searches suffice: when the mailbox
\* holds a message other than the messageId of the call that matches the
\* incoming or the outgoing search, the call returns true, whichever matching
\* messages the remote returns within the limits.
C25_LimitsSuffice ==
    (/\ SenderCall
     /\ Done
     /\ (mailbox.incoming \cup mailbox.outgoing) \ {call.options.messageId} # {})
    => settled = Return(TRUE)

\* The providers PUBLIC_DOMAINS lists, by domain.
ListedProviders ==
    {"gmail.com", "yahoo.com", "hotmail.com", "outlook.com", "aol.com",
     "icloud.com", "me.com", "protonmail.com", "zoho.com", "yandex.com",
     "fastmail.com", "gmx.com", "hey.com"}

\* C26: every entry of PUBLIC_DOMAINS has its effect: a sender at a listed
\* provider, me.com and hey.com included, is searched by the full address,
\* not by the domain.
C26_ListedProvidersByAddress ==
    (/\ OrDomainCall
     /\ toLowerCase(extractDomainFromEmail(call.options.from)) \in ListedProviders)
    => \A k \in 1..Len(Args("list")) :
          Args("list")[k].q.term = call.options.from

=============================================================================
